---- MODULE Spec2Model ----
(***************************************************************************)
(* The conversion controller of ClipCat (src/src/App.tsx, component App):  *)
(* the React state (file, startTime, endTime, output, isConverting,        *)
(* autoPass), the two refs (jobIdRef, outputUrlRef), the browser's table   *)
(* of object URLs, and the invocations of the async function handleConvert *)
(* that are suspended at an await.                                         *)
(*                                                                         *)
(* JavaScript runs one handler or one promise continuation at a time, so   *)
(* one action is the code between two suspension points.  handleConvert    *)
(* suspends at the analyser calls (lines 222-233; no controller state is   *)
(* read or written between them, so they are one suspension here) and at   *)
(* encodeVariant (line 296).  State setters are taken to be visible to the *)
(* next handler (React renders before it dispatches the next event).       *)
(*                                                                         *)
(* Arithmetic is exact: Math.floor(a * b / c) is computed on integers.     *)
(* Time texts are over the characters 0-9, ":", "-", " " and "a", so every *)
(* parsed time is a whole number of seconds.                               *)
(*                                                                         *)
(* Spec is the component under every interleaving of its handlers.         *)
(* ParseSpec and PlanSpec run the conversions of one selected file over    *)
(* wide sets of time texts and of sources; FairSpec adds the assumption    *)
(* that every await is eventually settled.                                 *)
(***************************************************************************)
EXTENDS Integers, Sequences, FiniteSets

VARIABLES
    file,          \* useState<File | null>: NULL or a file id          (line 76)
    startTime,     \* useState(''): the start text, a sequence of chars (line 74)
    endTime,       \* useState(''): the end text                        (line 75)
    output,        \* useState<OutputState>                             (line 78)
    isConverting,  \* useState(false)                                   (line 79)
    autoPass,      \* useState<number | null>                           (line 80)
    jobIdRef,      \* useRef(0)                                         (line 82)
    outputUrlRef,  \* useRef<string | null>                             (line 83)
    liveUrls,      \* object URLs created and not yet revoked
    urlsCreated,   \* how many times URL.createObjectURL was called
    mounted,       \* FALSE after the effect cleanup of lines 85-89 ran
    lastCalls,     \* history: encodeVariant calls made by the invocation that
                   \* set output, 0 when no invocation did
    jobs           \* the invocations of handleConvert that passed validation

vars == <<file, startTime, endTime, output, isConverting, autoPass, jobIdRef,
          outputUrlRef, liveUrls, urlsCreated, mounted, lastCalls, jobs>>

-----------------------------------------------------------------------------
(* Bounds of the model *)

\* handleConvert invocations that get past validation
MaxJobs == 2
\* file selections (each adds one to jobIdRef)
MaxFileChanges == 2
\* characters of an end text, where every text is tried
MaxTextLen == 3

-----------------------------------------------------------------------------
(* Program constants *)

\* null of url, sizeBytes, autoPass and outputUrlRef: URLs are numbered from 1,
\* a size is positive and a pass number is at least 2
NULL == 0

AUTO_MAX_ATTEMPTS == 5
AUTO_TARGET_BYTES == 9800000
AUDIO_BITRATE_BPS == 96000
MIN_VIDEO_BITRATE_BPS == 150000
MIN_OVERHEAD_BYTES == 150000
\* the downscale target, lines 261-262 and 270-272
DOWNSCALE_TARGET == 1080
\* the clamp of the packet rate, line 231
MIN_FPS == 15
MAX_FPS == 120
\* 1 / BPP_THRESHOLD, line 204
PIXELS_PER_BIT == 50

NoEndTimeMsg == "Please enter an end time"
EndBeforeStartMsg == "End time must be after start time"
NoVideoTrackMsg == "No video track found in the selected file"
TooShortMsg == "Clip is too short to safely fit under 10MB"
NoConvergeMsg == "Auto mode could not hit the target size. Try trimming more."
\* any message of an exception thrown inside mediabunny
EngineFailureMsg == "engine failure"
NoError == "null"

INITIAL_OUTPUT_STATE ==
    [status |-> "idle", url |-> NULL, sizeBytes |-> NULL, error |-> NoError]

-----------------------------------------------------------------------------
(* Inputs the environment can supply *)

\* what the user can type in the start field
StartTexts == { <<>>, <<"0", ":", "3", "0">> }
\* what the user can type in the end field: nothing, 20 s, 14 min
EndTexts == { <<>>, <<"0", ":", "2", "0">>, <<"1", "4", ":", "0", "0">> }
\* e.target.files?.[0] ?? null
FileChoices == { NULL, 1 }
\* what the analyser reports of a source: its primary video track's display
\* size and average packet rate, and whether it has an audio track
Track(hasAudio, displayWidth, displayHeight, averagePacketRate) ==
    [hasAudio |-> hasAudio, displayWidth |-> displayWidth,
     displayHeight |-> displayHeight, averagePacketRate |-> averagePacketRate]
\* a 4K landscape source at 30 packets per second, with or without audio
Tracks == { Track(hasAudio, 3840, 2160, 30) : hasAudio \in BOOLEAN }
\* display widths and heights of the sources where every geometry is tried
Dimensions == { 0, 1080, 1920, 2160, 3840 }
\* average packet rates of those sources: below, inside and above the clamp
PacketRates == { 10, 30, 200 }
\* every such source, with or without audio
AllTracks ==
    { Track(hasAudio, displayWidth, displayHeight, averagePacketRate) :
        hasAudio \in BOOLEAN, displayWidth \in Dimensions,
        displayHeight \in Dimensions, averagePacketRate \in PacketRates }
\* blob.size of an encode: on the budget, or half as much again
EngineSizes == { AUTO_TARGET_BYTES, (AUTO_TARGET_BYTES * 3) \div 2 }

\* the characters of a text where every text is tried: a digit, the colon,
\* a space, the minus sign and a letter
TextChars == { "2", ":", " ", "-", "a" }
\* every text of at most MaxTextLen such characters
Texts == UNION { [1..n -> TextChars] : n \in 0..MaxTextLen }
\* the two well-formed examples of the specification, "2:30" and "0:05"
ExampleTexts == { <<"2", ":", "3", "0">>, <<"0", ":", "0", "5">> }
\* start texts of those runs: nothing, 30 s, and a negative minute
WideStartTexts == StartTexts \cup { <<"-", "1", ":", "0", "0">> }
\* blob.size of an encode in those runs: also one byte over the budget, and
\* four times the budget
WideEngineSizes ==
    EngineSizes \cup { AUTO_TARGET_BYTES + 1, 4 * AUTO_TARGET_BYTES }

-----------------------------------------------------------------------------
(* Numbers *)

Max(a, b) == IF a >= b THEN a ELSE b

Min(a, b) == IF a <= b THEN a ELSE b

\* Math.floor(a / b), for b > 0
FloorDiv(a, b) == a \div b

\* Math.ceil(a / b), for b > 0
CeilDiv(a, b) == -((-a) \div b)

\* Math.round(a / b), for b > 0: the nearest integer, halves upwards
RoundDiv(a, b) == (2 * a + b) \div (2 * b)

\* <<q, r>> with a * b = q * c + r and 0 <= r < c, for a, b >= 0 and c > 0,
\* taking b six bits at a time, or four when a is large, so that no
\* intermediate value exceeds 2^31
RECURSIVE MulDivMod(_, _, _)
MulDivMod(a, b, c) ==
    IF b = 0 THEN <<0, 0>>
    ELSE LET base == IF a + c < 2^25 THEN 64 ELSE 16
             h == MulDivMod(a, b \div base, c)
             r == base * h[2] + (b % base) * a
         IN  <<base * h[1] + (r \div c), r % c>>

\* Math.floor(a * b / c)
MulDivFloor(a, b, c) == MulDivMod(a, b, c)[1]

-----------------------------------------------------------------------------
(* parseTimeToSeconds, lines 18-29.  A text is a sequence of characters; a   *)
(* number or null is <<n>> or <<>>.                                          *)

IsSpace(c) == c = " "

RECURSIVE TrimStart(_)
TrimStart(s) ==
    IF s # <<>> /\ IsSpace(Head(s)) THEN TrimStart(Tail(s)) ELSE s

RECURSIVE TrimEnd(_)
TrimEnd(s) ==
    IF s # <<>> /\ IsSpace(s[Len(s)]) THEN TrimEnd(SubSeq(s, 1, Len(s) - 1)) ELSE s

\* String.prototype.trim
Trim(s) == TrimEnd(TrimStart(s))

\* String.prototype.split(':'): the pieces between the colons
RECURSIVE Split(_)
Split(s) ==
    LET colons == { i \in 1..Len(s) : s[i] = ":" }
    IN  IF colons = {} THEN <<s>>
        ELSE LET i == CHOOSE k \in colons : \A m \in colons : k <= m
             IN  <<SubSeq(s, 1, i - 1)>> \o Split(SubSeq(s, i + 1, Len(s)))

Digits == <<"0", "1", "2", "3", "4", "5", "6", "7", "8", "9">>

IsDigit(c) == \E d \in 1..Len(Digits) : Digits[d] = c

DigitValue(c) == (CHOOSE d \in 1..Len(Digits) : Digits[d] = c) - 1

RECURSIVE DecimalValue(_)
DecimalValue(s) ==
    IF s = <<>> THEN 0
    ELSE 10 * DecimalValue(SubSeq(s, 1, Len(s) - 1)) + DigitValue(s[Len(s)])

NaN == <<>>

\* Number(text): white space around the literal is ignored, the empty text is
\* 0, an optionally signed run of digits is its value, anything else is NaN
Number(s) ==
    LET t == Trim(s)
        neg == t # <<>> /\ Head(t) = "-"
        d == IF neg THEN Tail(t) ELSE t
    IN  IF t = <<>> THEN <<0>>
        ELSE IF d # <<>> /\ \A i \in 1..Len(d) : IsDigit(d[i])
             THEN <<IF neg THEN -DecimalValue(d) ELSE DecimalValue(d)>>
             ELSE NaN

\* Number(parts[i]), where a part the destructuring did not find is undefined
\* and Number(undefined) is NaN
NumberOfPart(parts, i) == IF i > Len(parts) THEN NaN ELSE Number(parts[i])

parseTimeToSeconds(time) ==
    LET trimmed == Trim(time)
        parts == Split(trimmed)
        minutes == NumberOfPart(parts, 1)
        seconds == NumberOfPart(parts, 2)
    IN  IF trimmed = <<>> THEN <<>>
        ELSE IF minutes = NaN \/ seconds = NaN THEN <<>>
        ELSE <<minutes[1] * 60 + seconds[1]>>

-----------------------------------------------------------------------------
(* The budget derivation of handleConvert, lines 239-253 *)

\* lines 239-242
overheadBytes == Max(MIN_OVERHEAD_BYTES, RoundDiv(AUTO_TARGET_BYTES * 15, 1000))

\* lines 243-245
audioBytesBudget(hasAudio, durationSeconds) ==
    IF hasAudio THEN CeilDiv(AUDIO_BITRATE_BPS * durationSeconds, 8) ELSE 0

\* A budget that is clamped to one byte, so that it is never found exhausted
videoBytesBudgetClamped(hasAudio, durationSeconds) ==
    Max(1, AUTO_TARGET_BYTES - overheadBytes
               - audioBytesBudget(hasAudio, durationSeconds))

\* lines 247-248
videoBytesBudget(hasAudio, durationSeconds) ==
    AUTO_TARGET_BYTES - overheadBytes - audioBytesBudget(hasAudio, durationSeconds)

\* line 253: the bitrate of the first attempt
InitialBitrate(hasAudio, durationSeconds) ==
    FloorDiv(videoBytesBudget(hasAudio, durationSeconds) * 8, durationSeconds)

-----------------------------------------------------------------------------
(* The downscale decision of handleConvert, lines 231 and 255-274.  The      *)
(* packet rate is a whole number here, so bitsPerPixel < 0.02 is compared    *)
(* exactly as 50 * videoBitrateBps < pixelsPerSecond.                        *)

\* line 231: Math.min(Math.max(averagePacketRate, 15), 120)
estimatedFps(averagePacketRate) == Min(Max(averagePacketRate, MIN_FPS), MAX_FPS)

\* line 255
pixelsPerSecond(displayWidth, displayHeight, fps) ==
    displayWidth * displayHeight * fps

\* lines 256-257 and the comparison of line 263: bitsPerPixel < BPP_THRESHOLD,
\* where bitsPerPixel is Infinity when pixelsPerSecond is 0
BelowBppThreshold(videoBitrateBps, displayWidth, displayHeight, fps) ==
    /\ pixelsPerSecond(displayWidth, displayHeight, fps) > 0
    /\ PIXELS_PER_BIT * videoBitrateBps
           < pixelsPerSecond(displayWidth, displayHeight, fps)

\* An orientation test that takes a square source for portrait
isLandscapeStrict(displayWidth, displayHeight) == displayWidth > displayHeight

\* line 259
isLandscape(displayWidth, displayHeight) == displayWidth >= displayHeight

\* lines 260-262
isOver1080p(displayWidth, displayHeight) ==
    IF isLandscape(displayWidth, displayHeight)
    THEN displayHeight > DOWNSCALE_TARGET
    ELSE displayWidth > DOWNSCALE_TARGET

\* line 263
shouldDownscale(videoBitrateBps, displayWidth, displayHeight, fps) ==
    /\ isOver1080p(displayWidth, displayHeight)
    /\ BelowBppThreshold(videoBitrateBps, displayWidth, displayHeight, fps)

\* lines 265-274: downscaleWidth, NULL for undefined
downscaleWidth(videoBitrateBps, displayWidth, displayHeight, fps) ==
    IF /\ shouldDownscale(videoBitrateBps, displayWidth, displayHeight, fps)
       /\ ~isLandscape(displayWidth, displayHeight)
    THEN DOWNSCALE_TARGET ELSE NULL

\* lines 265-274: downscaleHeight, NULL for undefined
downscaleHeight(videoBitrateBps, displayWidth, displayHeight, fps) ==
    IF /\ shouldDownscale(videoBitrateBps, displayWidth, displayHeight, fps)
       /\ isLandscape(displayWidth, displayHeight)
    THEN DOWNSCALE_TARGET ELSE NULL

-----------------------------------------------------------------------------
(* The correction step of the loop, lines 311-318 *)

\* A correction by the size ratio alone, without the 0.92 margin
nextBitrateNoMargin(videoBitrateBps, sizeBytes) ==
    MulDivFloor(videoBitrateBps, AUTO_TARGET_BYTES, sizeBytes)

\* line 312: Math.floor(videoBitrateBps * (AUTO_TARGET_BYTES / sizeBytes) * 0.92),
\* where 0.92 * AUTO_TARGET_BYTES is a whole number
nextBitrate(videoBitrateBps, sizeBytes) ==
    MulDivFloor(videoBitrateBps, (AUTO_TARGET_BYTES * 92) \div 100, sizeBytes)

\* lines 313-316
reducedBitrate(videoBitrateBps, sizeBytes) ==
    IF nextBitrate(videoBitrateBps, sizeBytes) < videoBitrateBps
    THEN nextBitrate(videoBitrateBps, sizeBytes)
    ELSE FloorDiv(videoBitrateBps * 17, 20)

\* line 318: the bitrate of the next attempt
CorrectedBitrate(videoBitrateBps, sizeBytes) ==
    Max(reducedBitrate(videoBitrateBps, sizeBytes), MIN_VIDEO_BITRATE_BPS)

\* A size test that lets an over-budget encode through
FitsBudgetLoose(sizeBytes) == sizeBytes <= 2 * AUTO_TARGET_BYTES

\* A size test that rejects an encode exactly on the budget
FitsBudgetStrict(sizeBytes) == sizeBytes < AUTO_TARGET_BYTES

\* line 298
FitsBudget(sizeBytes) == sizeBytes <= AUTO_TARGET_BYTES

\* A loop that stops one attempt early
LoopContinuesOneLess(attempt) == attempt < AUTO_MAX_ATTEMPTS

\* line 276: the loop condition
LoopContinues(attempt) == attempt <= AUTO_MAX_ATTEMPTS

-----------------------------------------------------------------------------
(* The state after construction, lines 74-83 *)

Init ==
    /\ file = NULL
    /\ startTime = <<>>
    /\ endTime = <<>>
    /\ output = INITIAL_OUTPUT_STATE
    /\ isConverting = FALSE
    /\ autoPass = NULL
    /\ jobIdRef = 0
    /\ outputUrlRef = NULL
    /\ liveUrls = {}
    /\ urlsCreated = 0
    /\ mounted = TRUE
    /\ lastCalls = 0
    /\ jobs = <<>>

\* An invocation of handleConvert at its first await: the captured jobId and
\* trim, the locals the analysis fills in (lines 216-219 and 265-266) and the
\* locals of the loop.  calls counts the encodeVariant calls made and
\* prevBitrate is the bitrate of the call before the pending one.
NewJob(jobId, startSeconds, endSeconds) ==
    [id |-> jobId, start |-> startSeconds, end |-> endSeconds,
     pc |-> "analysis", hasAudio |-> FALSE,
     displayWidth |-> 0, displayHeight |-> 0, estimatedFps |-> 30,
     downscaleWidth |-> NULL, downscaleHeight |-> NULL, attempt |-> 0,
     videoBitrateBps |-> 0, prevBitrate |-> 0, calls |-> 0]

JobIndices == 1..Len(jobs)

\* A checkpoint that only stops a job with an id from the future
IsCurrentOrOlder(jobId) == jobId <= jobIdRef

\* jobId === jobIdRef.current, lines 277, 301, 327 and 331
IsCurrent(jobId) == jobId = jobIdRef

-----------------------------------------------------------------------------
(* The input fields, lines 356 and 366 *)

setStartTime(text) ==
    /\ mounted
    /\ text # startTime
    /\ startTime' = text
    /\ UNCHANGED <<file, endTime, output, isConverting, autoPass, jobIdRef,
                   outputUrlRef, liveUrls, urlsCreated, mounted, lastCalls, jobs>>

setEndTime(text) ==
    /\ mounted
    /\ text # endTime
    /\ endTime' = text
    /\ UNCHANGED <<file, startTime, output, isConverting, autoPass, jobIdRef,
                   outputUrlRef, liveUrls, urlsCreated, mounted, lastCalls, jobs>>

-----------------------------------------------------------------------------
(* resetOutput, lines 91-96.  nextOutput is the output state the calling   *)
(* handler leaves: INITIAL_OUTPUT_STATE, unless the handler sets another   *)
(* after the call (line 199).  A reset output is no invocation's outcome,   *)
(* so the record of the calls behind it is cleared with it.                *)

\* A reset that forgets the held handle without revoking it
resetOutputNoRevoke(nextOutput) ==
    /\ liveUrls' = liveUrls
    /\ outputUrlRef' = NULL
    /\ output' = nextOutput
    /\ autoPass' = NULL
    /\ lastCalls' = 0

\* A reset of the React state alone, which keeps the held handle
resetOutputKeepHandle(nextOutput) ==
    /\ UNCHANGED <<liveUrls, outputUrlRef>>
    /\ output' = nextOutput
    /\ autoPass' = NULL
    /\ lastCalls' = 0

\* A reset that revokes the held handle and leaves the output state as it is
resetOutputKeepShown(nextOutput) ==
    /\ liveUrls' = IF outputUrlRef # NULL THEN liveUrls \ {outputUrlRef} ELSE liveUrls
    /\ outputUrlRef' = NULL
    /\ output' = output
    /\ autoPass' = NULL
    /\ lastCalls' = lastCalls

resetOutput(nextOutput) ==
    /\ liveUrls' = IF outputUrlRef # NULL THEN liveUrls \ {outputUrlRef} ELSE liveUrls
    /\ outputUrlRef' = NULL
    /\ output' = nextOutput
    /\ autoPass' = NULL
    /\ lastCalls' = 0

\* A file selection that leaves the counter alone
SameJobId == jobIdRef

\* line 99: jobIdRef.current += 1
NextJobId == jobIdRef + 1

\* A file selection that leaves the busy flag as it is
handleFileChangeKeepsBusy(selectedFile) ==
    /\ mounted
    /\ jobIdRef < MaxFileChanges
    /\ jobIdRef' = NextJobId
    /\ file' = selectedFile
    /\ resetOutput(INITIAL_OUTPUT_STATE)
    /\ UNCHANGED <<startTime, endTime, isConverting, urlsCreated, mounted, jobs>>

(* handleFileChange, lines 98-105 *)
handleFileChange(selectedFile) ==
    /\ mounted
    /\ jobIdRef < MaxFileChanges
    /\ jobIdRef' = NextJobId
    /\ file' = selectedFile
    /\ isConverting' = FALSE
    /\ resetOutput(INITIAL_OUTPUT_STATE)
    /\ UNCHANGED <<startTime, endTime, urlsCreated, mounted, jobs>>

(* The effect cleanup, lines 85-89 *)
Unmount ==
    /\ mounted
    /\ mounted' = FALSE
    /\ liveUrls' = IF outputUrlRef # NULL THEN liveUrls \ {outputUrlRef} ELSE liveUrls
    /\ UNCHANGED <<file, startTime, endTime, output, isConverting, autoPass,
                   jobIdRef, outputUrlRef, urlsCreated, lastCalls, jobs>>

-----------------------------------------------------------------------------
(* handleConvert, lines 166-336 *)

\* A guard that lets a second conversion start while one is running
CanConvertWhileBusy == file # NULL

\* line 167, and the button's disabled attribute, line 387
CanConvert == file # NULL /\ ~isConverting

\* lines 172-188: the updater of a validation failure
ValidationError(prev, message) ==
    [prev EXCEPT !.status = "error", !.error = message]

\* lines 166-222: from the click to the first await
handleConvert ==
    /\ mounted
    /\ CanConvert
    /\ LET parsedStart == parseTimeToSeconds(startTime)
           startSeconds == IF parsedStart = <<>> THEN 0 ELSE parsedStart[1]
           endSeconds == parseTimeToSeconds(endTime)
       IN  IF endSeconds = <<>>
           THEN /\ output' = ValidationError(output, NoEndTimeMsg)
                /\ UNCHANGED <<isConverting, autoPass, outputUrlRef, liveUrls,
                               lastCalls, jobs>>
           ELSE IF endSeconds[1] <= startSeconds
           THEN /\ output' = ValidationError(output, EndBeforeStartMsg)
                /\ UNCHANGED <<isConverting, autoPass, outputUrlRef, liveUrls,
                               lastCalls, jobs>>
           ELSE /\ Len(jobs) < MaxJobs
                /\ isConverting' = TRUE
                /\ resetOutput([status |-> "encoding", url |-> NULL,
                                sizeBytes |-> NULL, error |-> NoError])
                /\ jobs' = Append(jobs, NewJob(jobIdRef, startSeconds, endSeconds[1]))
    /\ UNCHANGED <<file, startTime, endTime, jobIdRef, urlsCreated, mounted>>

\* The invocation returns: nothing of it runs again and its locals are gone.
Returned(job) == [NewJob(job.id, 0, 0) EXCEPT !.pc = "returned"]

\* A catch block without the finally block: the busy flag and the pass
\* indicator stay as they are
CatchFinallyKeepsBusy(j, job, message) ==
    /\ IF IsCurrent(job.id)
       THEN output' = [status |-> "error", url |-> NULL, sizeBytes |-> NULL,
                       error |-> message]
       ELSE UNCHANGED output
    /\ lastCalls' = IF IsCurrent(job.id) THEN job.calls ELSE lastCalls
    /\ jobs' = [jobs EXCEPT ![j] = Returned(job)]
    /\ UNCHANGED <<file, startTime, endTime, isConverting, autoPass, jobIdRef,
                   outputUrlRef, liveUrls, urlsCreated, mounted>>

\* lines 324-335: an exception reaches the catch block, then the finally block
CatchFinally(j, job, message) ==
    /\ IF IsCurrent(job.id)
       THEN /\ output' = [status |-> "error", url |-> NULL, sizeBytes |-> NULL,
                          error |-> message]
            /\ isConverting' = FALSE
            /\ autoPass' = NULL
            /\ lastCalls' = job.calls
            /\ jobs' = [jobs EXCEPT ![j] = Returned(job)]
       ELSE /\ UNCHANGED <<output, isConverting, autoPass, lastCalls>>
            /\ jobs' = [jobs EXCEPT ![j] = Returned(job)]
    /\ UNCHANGED <<file, startTime, endTime, jobIdRef, outputUrlRef, liveUrls,
                   urlsCreated, mounted>>

\* lines 276-296 and 321-323: the loop test, the checkpoint and the call of
\* encodeVariant with job.videoBitrateBps, for the attempt job.attempt
LoopHead(j, job) ==
    IF ~LoopContinues(job.attempt)
    THEN CatchFinally(j, job, NoConvergeMsg)
    ELSE IF ~IsCurrent(job.id)
    THEN /\ jobs' = [jobs EXCEPT ![j] = Returned(job)]
         /\ UNCHANGED <<file, startTime, endTime, output, isConverting, autoPass,
                        jobIdRef, outputUrlRef, liveUrls, urlsCreated, mounted,
                        lastCalls>>
    ELSE /\ autoPass' = IF job.attempt > 1 THEN job.attempt ELSE autoPass
         /\ jobs' = [jobs EXCEPT ![j] =
                        [job EXCEPT !.pc = "encode", !.calls = @ + 1]]
         /\ UNCHANGED <<file, startTime, endTime, output, isConverting, jobIdRef,
                        outputUrlRef, liveUrls, urlsCreated, mounted, lastCalls>>

\* lines 222-296: the analyser answers with a track; the budget, the first
\* bitrate, the downscale decision and the first pass through the loop head
AnalysisResolves(j, track) ==
    /\ j \in JobIndices
    /\ jobs[j].pc = "analysis"
    /\ LET durationSeconds == jobs[j].end - jobs[j].start
           fps == estimatedFps(track.averagePacketRate)
           analysed == [jobs[j] EXCEPT !.hasAudio = track.hasAudio,
                                       !.displayWidth = track.displayWidth,
                                       !.displayHeight = track.displayHeight,
                                       !.estimatedFps = fps]
           bitrate == InitialBitrate(track.hasAudio, durationSeconds)
       IN  IF videoBytesBudget(track.hasAudio, durationSeconds) <= 0
           THEN CatchFinally(j, analysed, TooShortMsg)
           ELSE LoopHead(j, [analysed EXCEPT
                     !.attempt = 1,
                     !.videoBitrateBps = bitrate,
                     !.downscaleWidth =
                         downscaleWidth(bitrate, track.displayWidth,
                                        track.displayHeight, fps),
                     !.downscaleHeight =
                         downscaleHeight(bitrate, track.displayWidth,
                                         track.displayHeight, fps)])

\* lines 222-237 and 324-335: the analyser finds no video track, or throws
AnalysisRejects(j) ==
    /\ j \in JobIndices
    /\ jobs[j].pc = "analysis"
    /\ CatchFinally(j, jobs[j], NoVideoTrackMsg)

\* lines 298-309: the encode fits; the object URL, the checkpoint, the result
Success(j, job, sizeBytes) ==
    LET url == urlsCreated + 1
    IN  /\ urlsCreated' = url
        /\ IF ~IsCurrent(job.id)
           THEN /\ jobs' = [jobs EXCEPT ![j] = Returned(job)]
                /\ UNCHANGED <<output, isConverting, autoPass, outputUrlRef,
                               liveUrls, lastCalls>>
           ELSE /\ outputUrlRef' = url
                /\ liveUrls' = liveUrls \cup {url}
                /\ output' = [status |-> "done", url |-> url,
                              sizeBytes |-> sizeBytes, error |-> NoError]
                /\ isConverting' = FALSE
                /\ autoPass' = NULL
                /\ lastCalls' = job.calls
                /\ jobs' = [jobs EXCEPT ![j] = Returned(job)]
        /\ UNCHANGED <<file, startTime, endTime, jobIdRef, mounted>>

\* lines 296-319: encodeVariant resolves with a blob of sizeBytes bytes
EncodeResolves(j, sizeBytes) ==
    /\ j \in JobIndices
    /\ jobs[j].pc = "encode"
    /\ IF FitsBudget(sizeBytes)
       THEN Success(j, jobs[j], sizeBytes)
       ELSE LoopHead(j, [jobs[j] EXCEPT
                !.attempt = @ + 1,
                !.prevBitrate = jobs[j].videoBitrateBps,
                !.videoBitrateBps = CorrectedBitrate(@, sizeBytes)])

\* An engine failure that is answered with another attempt at 85% of the
\* bitrate
EncodeRejectsRetries(j) ==
    /\ j \in JobIndices
    /\ jobs[j].pc = "encode"
    /\ LoopHead(j, [jobs[j] EXCEPT
            !.attempt = @ + 1,
            !.prevBitrate = jobs[j].videoBitrateBps,
            !.videoBitrateBps = Max(FloorDiv(@ * 17, 20), MIN_VIDEO_BITRATE_BPS)])

\* lines 296 and 324-335: encodeVariant rejects
EncodeRejects(j) ==
    /\ j \in JobIndices
    /\ jobs[j].pc = "encode"
    /\ CatchFinally(j, jobs[j], EngineFailureMsg)

-----------------------------------------------------------------------------

Next ==
    \/ \E text \in StartTexts : setStartTime(text)
    \/ \E text \in EndTexts : setEndTime(text)
    \/ \E selectedFile \in FileChoices : handleFileChange(selectedFile)
    \/ handleConvert
    \/ \E j \in 1..MaxJobs, track \in Tracks : AnalysisResolves(j, track)
    \/ \E j \in 1..MaxJobs : AnalysisRejects(j)
    \/ \E j \in 1..MaxJobs, sizeBytes \in EngineSizes : EncodeResolves(j, sizeBytes)
    \/ \E j \in 1..MaxJobs : EncodeRejects(j)
    \/ Unmount

Spec == Init /\ [][Next]_vars

-----------------------------------------------------------------------------
(* The conversions of one selected file, for every start and end text of    *)
(* WideStartTexts and Texts: the state after the file was selected and the  *)
(* two fields were filled in, then the clicks on Convert and the answers of  *)
(* the analyser and the engine.                                             *)

ParseInit ==
    /\ file = 1
    /\ startTime \in WideStartTexts
    /\ endTime \in Texts \cup ExampleTexts
    /\ output = INITIAL_OUTPUT_STATE
    /\ isConverting = FALSE
    /\ autoPass = NULL
    /\ jobIdRef = 1
    /\ outputUrlRef = NULL
    /\ liveUrls = {}
    /\ urlsCreated = 0
    /\ mounted = TRUE
    /\ lastCalls = 0
    /\ jobs = <<>>

ParseNext ==
    \/ handleConvert
    \/ \E j \in 1..MaxJobs, track \in Tracks : AnalysisResolves(j, track)
    \/ \E j \in 1..MaxJobs : AnalysisRejects(j)
    \/ \E j \in 1..MaxJobs, sizeBytes \in WideEngineSizes :
           EncodeResolves(j, sizeBytes)
    \/ \E j \in 1..MaxJobs : EncodeRejects(j)

ParseSpec == ParseInit /\ [][ParseNext]_vars

-----------------------------------------------------------------------------
(* The component with the two fields filled in beforehand, under the       *)
(* assumption that every analyser and engine call eventually resolves or    *)
(* rejects: the promise a suspended invocation awaits is settled, and its   *)
(* continuation is then run by the event loop.                              *)

\* the continuation of invocation j after its pending await
JobStep(j) ==
    \/ \E track \in Tracks : AnalysisResolves(j, track)
    \/ AnalysisRejects(j)
    \/ \E sizeBytes \in EngineSizes : EncodeResolves(j, sizeBytes)
    \/ EncodeRejects(j)

\* the state after construction and typing: no file is selected yet
FairInit ==
    /\ file = NULL
    /\ startTime \in StartTexts
    /\ endTime \in EndTexts
    /\ output = INITIAL_OUTPUT_STATE
    /\ isConverting = FALSE
    /\ autoPass = NULL
    /\ jobIdRef = 0
    /\ outputUrlRef = NULL
    /\ liveUrls = {}
    /\ urlsCreated = 0
    /\ mounted = TRUE
    /\ lastCalls = 0
    /\ jobs = <<>>

FairNext ==
    \/ \E selectedFile \in FileChoices : handleFileChange(selectedFile)
    \/ handleConvert
    \/ \E j \in 1..MaxJobs : JobStep(j)
    \/ Unmount

FairSpec ==
    FairInit /\ [][FairNext]_vars /\ \A j \in 1..MaxJobs : WF_vars(JobStep(j))

-----------------------------------------------------------------------------
(* The conversions of one selected file, for every source of AllTracks: the *)
(* state after the file was selected and the fields were filled in with the *)
(* texts of StartTexts and EndTexts, then the clicks on Convert and the     *)
(* answers of the analyser and the engine.                                  *)

PlanInit ==
    /\ file = 1
    /\ startTime \in StartTexts
    /\ endTime \in EndTexts
    /\ output = INITIAL_OUTPUT_STATE
    /\ isConverting = FALSE
    /\ autoPass = NULL
    /\ jobIdRef = 1
    /\ outputUrlRef = NULL
    /\ liveUrls = {}
    /\ urlsCreated = 0
    /\ mounted = TRUE
    /\ lastCalls = 0
    /\ jobs = <<>>

PlanNext ==
    \/ handleConvert
    \/ \E j \in 1..MaxJobs, track \in AllTracks : AnalysisResolves(j, track)
    \/ \E j \in 1..MaxJobs : AnalysisRejects(j)
    \/ \E j \in 1..MaxJobs, sizeBytes \in EngineSizes : EncodeResolves(j, sizeBytes)
    \/ \E j \in 1..MaxJobs : EncodeRejects(j)

PlanSpec == PlanInit /\ [][PlanNext]_vars

-----------------------------------------------------------------------------
(* Properties *)

\* Some invocation of handleConvert is suspended with a stale job id.
SupersededInFlight ==
    \E j \in JobIndices : jobs[j].pc # "returned" /\ jobs[j].id # jobIdRef

\* C1: whenever output.status is 'done', output.sizeBytes is the size of an
\* encode and is at most the target budget of 9,800,000 bytes.
C1_DoneWithinBudget ==
    output.status = "done" =>
        output.sizeBytes # NULL /\ output.sizeBytes <= 9800000

\* C1 witness: 'done' is reported, with a size exactly on the budget, by a job
\* that needed a retry while a superseded job is still in flight.
C1_Witness ==
    /\ output.status = "done"
    /\ output.sizeBytes = 9800000
    /\ lastCalls > 1
    /\ SupersededInFlight

\* C2: no invocation makes more than 5 encodeVariant calls; when a call of the
\* current job resolves over budget, the job makes another call if it has made
\* fewer than 5, and after the 5th it returns and the error state with the
\* could-not-converge message is set; that message is never set otherwise.
C2_Step(j) ==
    /\ jobs[j].calls <= 5
    /\ \A sizeBytes \in EngineSizes :
          ( /\ sizeBytes > 9800000
            /\ jobs[j].id = jobIdRef
            /\ EncodeResolves(j, sizeBytes) )
          => IF jobs[j].calls < 5
             THEN /\ jobs'[j].pc = "encode"
                  /\ jobs'[j].calls = jobs[j].calls + 1
                  /\ output' = output
             ELSE /\ jobs'[j].pc = "returned"
                  /\ output'.status = "error"
                  /\ output'.error = NoConvergeMsg
                  /\ lastCalls' = 5

\* C2, over every step and every invocation
C2_FiveAttempts ==
    [][ /\ \A j \in JobIndices : C2_Step(j)
        /\ (output'.error = NoConvergeMsg /\ output' # output) =>
               \E j \in JobIndices :
                   /\ jobs[j].pc = "encode"
                   /\ jobs[j].calls = 5
                   /\ jobs'[j].pc = "returned" ]_vars

\* C2 witness: the could-not-converge error is shown, 5 calls after the start.
C2_Witness ==
    /\ output.status = "error"
    /\ output.error = NoConvergeMsg
    /\ lastCalls = 5

\* The first bitrate as section 4.2 of the specification derives it.
C3_DerivedBitrate(hasAudio, durationSeconds) ==
    ((9800000 - 150000 - (IF hasAudio THEN 12000 * durationSeconds ELSE 0)) * 8)
        \div durationSeconds

\* C3: when the first encodeVariant call of the current job resolves with a
\* size within the budget, the job returns without another call, 'done' is
\* set with that size, and the call was made with the derived bitrate.
C3_Step(j) ==
    \A sizeBytes \in EngineSizes :
        ( /\ sizeBytes <= 9800000
          /\ jobs[j].calls = 1
          /\ jobs[j].id = jobIdRef
          /\ EncodeResolves(j, sizeBytes) )
        => /\ jobs[j].videoBitrateBps =
                 C3_DerivedBitrate(jobs[j].hasAudio, jobs[j].end - jobs[j].start)
           /\ jobs'[j].pc = "returned"
           /\ output'.status = "done"
           /\ output'.sizeBytes = sizeBytes
           /\ lastCalls' = 1

\* C3, over every step and every invocation
C3_FirstAttemptFits == [][\A j \in JobIndices : C3_Step(j)]_vars

\* C3 witness: 'done' is shown and the job that set it made one call.
C3_Witness == output.status = "done" /\ lastCalls = 1

\* C4: in every invocation, the bitrate of an encodeVariant call after the
\* first is at most the bitrate of the call before it.
C4_BitrateNeverIncreases ==
    \A j \in JobIndices :
        (jobs[j].pc = "encode" /\ jobs[j].calls > 1) =>
            jobs[j].videoBitrateBps <= jobs[j].prevBitrate

\* C5: every encodeVariant call, the first included, is made with a video
\* bitrate of at least 150,000 bps.
C5_BitrateAtLeastFloor ==
    \A j \in JobIndices :
        jobs[j].pc = "encode" => jobs[j].videoBitrateBps >= 150000

\* C6: a step of an invocation whose captured job id is no longer the current
\* one changes none of output, isConverting and autoPass, nor the held handle
\* or the set of live object URLs.
C6_SupersededSilent ==
    [][ \A j \in JobIndices :
          ( /\ jobs[j].pc # "returned"
            /\ jobs[j].id # jobIdRef
            /\ jobs'[j] # jobs[j] )
          => /\ output' = output
             /\ isConverting' = isConverting
             /\ autoPass' = autoPass
             /\ outputUrlRef' = outputUrlRef
             /\ liveUrls' = liveUrls ]_vars

\* C6 witness: a superseded invocation has resolved within budget and returned
\* after the job that replaced it reported 'done': a second object URL was
\* created and revoked, and the first is still the one held and shown.
C6_Witness ==
    /\ \E j \in JobIndices : jobs[j].pc = "returned" /\ jobs[j].id # jobIdRef
    /\ \A j \in JobIndices : jobs[j].pc = "returned"
    /\ urlsCreated = 2
    /\ liveUrls = {1}
    /\ outputUrlRef = 1
    /\ output.status = "done" /\ output.url = 1
    /\ ~isConverting

\* C7 as stated: every job's id is strictly greater than the id of every job
\* started before it.
C7_IdsStrictlyIncrease ==
    \A i, j \in JobIndices : i < j => jobs[i].id < jobs[j].id

\* C7 amended: a job's id is the counter's value at its start, so it is never
\* above the counter, never below the id of a job started before it, and
\* strictly above the id of every earlier job that is still in flight.
C7_IdsOrdered ==
    \A j \in JobIndices :
        /\ jobs[j].id <= jobIdRef
        /\ \A i \in JobIndices :
              i < j => /\ jobs[i].id <= jobs[j].id
                       /\ jobs[i].pc # "returned" => jobs[i].id < jobs[j].id

\* C7 witness: a job has been started while an earlier one is in flight.
C7_Witness ==
    \E i, j \in JobIndices :
        /\ i < j
        /\ jobs[i].pc # "returned"
        /\ jobs[j].pc # "returned"
        /\ jobs[i].id < jobs[j].id

\* The invocations that are suspended and hold the current job id
ActiveJobs ==
    { j \in JobIndices : jobs[j].pc # "returned" /\ jobs[j].id = jobIdRef }

\* C8: at most one invocation is suspended with the current job id.
C8_AtMostOneActive == Cardinality(ActiveJobs) <= 1

\* C8 witness: one active job, and a superseded one still in flight.
C8_Witness == Cardinality(ActiveJobs) = 1 /\ SupersededInFlight

\* C9: at most one object URL is alive; while mounted with 'done' shown,
\* exactly one is, it is the held handle and the one shown, and every other
\* URL created so far has been revoked.
C9_OneLiveHandle ==
    /\ Cardinality(liveUrls) <= 1
    /\ liveUrls \subseteq 1..urlsCreated
    /\ (mounted /\ output.status = "done") =>
           /\ liveUrls = {outputUrlRef}
           /\ output.url = outputUrlRef
           /\ Cardinality((1..urlsCreated) \ liveUrls) = urlsCreated - 1

\* C9 witness: 'done' is shown after a second object URL was created, and one
\* URL is alive.
C9_Witness ==
    /\ mounted
    /\ output.status = "done"
    /\ urlsCreated >= 2
    /\ Cardinality(liveUrls) = 1

\* C10 as stated: the error state carries no artifact and no handle is held.
C10_ErrorHasNoArtifact ==
    output.status = "error" =>
        /\ output.url = NULL
        /\ output.sizeBytes = NULL
        /\ outputUrlRef = NULL

\* C10 amended: the error state of a failure after validation (analysis,
\* budget, encode or convergence error) carries no artifact, no handle is held
\* and no object URL is alive.
C10_JobErrorHasNoArtifact ==
    ( /\ output.status = "error"
      /\ output.error \notin {NoEndTimeMsg, EndBeforeStartMsg} )
    => /\ output.url = NULL
       /\ output.sizeBytes = NULL
       /\ outputUrlRef = NULL
       /\ liveUrls = {}

\* C10 witness: an encode error is shown after an earlier job had produced an
\* artifact.
C10_Witness ==
    /\ output.status = "error"
    /\ output.error = EngineFailureMsg
    /\ urlsCreated >= 1

\* C11: after the effect cleanup has run and every invocation of handleConvert
\* has returned, no object URL created by the component is alive.
C11_NoHandleAfterTeardown ==
    (~mounted /\ \A j \in JobIndices : jobs[j].pc = "returned") => liveUrls = {}

\* C14: every invocation that passed validation and is waiting for the
\* analyser or the engine has a trim window with start >= 0 and end > start.
C14_TrimWindowValid ==
    \A j \in JobIndices :
        jobs[j].pc # "returned" =>
            jobs[j].start >= 0 /\ jobs[j].end > jobs[j].start

\* A part of a split text that is empty or white space
C15_Blank(part) == Trim(part) = <<>>

\* C15: of the end text, the parser makes no value when it is empty or white
\* space, 150 of "2:30", 5 of "0:05", no value of ":", no value when the
\* minutes or the seconds part is not a number, and the value of the one
\* part, with 0 for the other, when one of the two is blank and the other one
\* is a number ("2:" is 120).
C15_ParserExamples ==
    LET parsed == parseTimeToSeconds(endTime)
        parts == Split(Trim(endTime))
    IN  /\ Trim(endTime) = <<>> => parsed = <<>>
        /\ endTime = <<"2", ":", "3", "0">> => parsed = <<150>>
        /\ endTime = <<"0", ":", "0", "5">> => parsed = <<5>>
        /\ endTime = <<":">> => parsed = <<>>
        /\ (\E i \in 1..Min(2, Len(parts)) : Number(parts[i]) = NaN)
               => parsed = <<>>
        /\ (Len(parts) >= 2 /\ C15_Blank(parts[2]) /\ ~C15_Blank(parts[1])
               /\ Number(parts[1]) # NaN)
               => parsed = <<60 * Number(parts[1])[1]>>
        /\ (Len(parts) >= 2 /\ C15_Blank(parts[1]) /\ ~C15_Blank(parts[2])
               /\ Number(parts[2]) # NaN)
               => parsed = <<Number(parts[2])[1]>>

\* The error state of a failure before the loop: 'error' with the message,
\* after no encodeVariant call
C12_FailedBeforeLoop(message) ==
    /\ output'.status = "error"
    /\ output'.error = message
    /\ lastCalls' = 0

\* C12: a click on Convert with an end text without a value, or with
\* end <= start, sets the error state and starts no job; a current job whose
\* analysis fails, or whose video byte budget 9,800,000 - 150,000 - audio bytes
\* is not positive, returns from the analysis with the error state set, having
\* made no encodeVariant call; no job that returns from the analysis has made
\* one.
C12_Step ==
    /\ LET parsedStart == parseTimeToSeconds(startTime)
           parsedEnd == parseTimeToSeconds(endTime)
       IN  ( /\ handleConvert
             /\ \/ parsedEnd = <<>>
                \/ parsedEnd[1] <= (IF parsedStart = <<>> THEN 0 ELSE parsedStart[1]) )
           => /\ output'.status = "error"
              /\ output'.error =
                    (IF parsedEnd = <<>> THEN NoEndTimeMsg ELSE EndBeforeStartMsg)
              /\ jobs' = jobs
              /\ lastCalls' = lastCalls
    /\ \A j \in JobIndices :
          /\ (jobs[j].pc = "analysis" /\ jobs'[j].pc = "returned")
                => jobs[j].calls = 0
          /\ (jobs[j].id = jobIdRef /\ AnalysisRejects(j))
                => /\ jobs'[j].pc = "returned"
                   /\ C12_FailedBeforeLoop(NoVideoTrackMsg)
          /\ \A track \in Tracks :
                ( /\ jobs[j].id = jobIdRef
                  /\ AnalysisResolves(j, track)
                  /\ 9800000 - 150000
                        - (IF track.hasAudio
                           THEN 12000 * (jobs[j].end - jobs[j].start) ELSE 0) <= 0 )
                => /\ jobs'[j].pc = "returned"
                   /\ C12_FailedBeforeLoop(TooShortMsg)

\* C12, over every step
C12_NoEncodeBeforeLoopFailure == [][C12_Step]_vars

\* C12 witness: the too-short error is shown after the job returned with no
\* encodeVariant call, for an end text that has a value above the start.
C12_Witness ==
    /\ output.status = "error"
    /\ output.error = TooShortMsg
    /\ lastCalls = 0
    /\ \E j \in JobIndices : jobs[j].pc = "returned"
    /\ \A j \in JobIndices : jobs[j].pc = "returned"

\* C13: when an encodeVariant call of an invocation rejects, on whichever
\* attempt, the invocation returns without another call; if its job id is
\* still the current one the error state with the engine's message is set,
\* the busy flag and the pass indicator are cleared, and otherwise nothing
\* is reported.  An invocation that has returned takes no further step, and
\* the engine's message is set by no other step.
C13_Step(j) ==
    /\ (jobs[j].pc = "encode" /\ EncodeRejects(j))
          => /\ jobs'[j].pc = "returned"
             /\ \A i \in JobIndices : i # j => jobs'[i] = jobs[i]
             /\ urlsCreated' = urlsCreated
             /\ IF jobs[j].id = jobIdRef
                THEN /\ output' = [status |-> "error", url |-> NULL,
                                   sizeBytes |-> NULL, error |-> EngineFailureMsg]
                     /\ ~isConverting'
                     /\ autoPass' = NULL
                     /\ lastCalls' = jobs[j].calls
                ELSE UNCHANGED <<output, isConverting, autoPass, lastCalls>>
    /\ jobs[j].pc = "returned" => jobs'[j] = jobs[j]

\* C13, over every step and every invocation
C13_EngineFailureFatal ==
    [][ /\ \A j \in JobIndices : C13_Step(j)
        /\ (output'.error = EngineFailureMsg /\ output' # output) =>
               \E j \in JobIndices :
                   /\ jobs[j].pc = "encode"
                   /\ jobs[j].id = jobIdRef
                   /\ jobs'[j].pc = "returned" ]_vars

\* C13 witness: the engine's error is shown after the fifth call of a job
\* failed, while a superseded invocation is still in flight.
C13_Witness ==
    /\ output.status = "error"
    /\ output.error = EngineFailureMsg
    /\ lastCalls = 5
    /\ ~isConverting
    /\ SupersededInFlight

\* The first bitrate of a job is bitrate-starved for its source: fewer than
\* 0.02 bits per pixel, which no source without pixels is.
C16_Starved(job) ==
    LET pixels == job.displayWidth * job.displayHeight * job.estimatedFps
        firstBitrate ==
            ((9800000 - 150000
                - (IF job.hasAudio THEN 12000 * (job.end - job.start) ELSE 0)) * 8)
                \div (job.end - job.start)
    IN  pixels > 0 /\ 50 * firstBitrate < pixels

\* C16: every encodeVariant call is made with at most one of width and
\* height: height 1080 alone for a starved landscape source (width >= height)
\* of a height above 1080, width 1080 alone for a starved portrait source of a
\* width above 1080, and neither for every other source.
C16_DownscaleRule ==
    \A j \in JobIndices :
        jobs[j].pc = "encode" =>
            LET job == jobs[j]
                landscape == job.displayWidth >= job.displayHeight
            IN  /\ job.downscaleWidth = NULL \/ job.downscaleHeight = NULL
                /\ IF landscape /\ job.displayHeight > 1080 /\ C16_Starved(job)
                   THEN job.downscaleHeight = 1080 /\ job.downscaleWidth = NULL
                   ELSE IF ~landscape /\ job.displayWidth > 1080 /\ C16_Starved(job)
                   THEN job.downscaleWidth = 1080 /\ job.downscaleHeight = NULL
                   ELSE job.downscaleWidth = NULL /\ job.downscaleHeight = NULL

\* C16 witness: a starved square source above 1080p is being encoded a second
\* time, with height 1080 and no width.
C16_Witness ==
    \E j \in JobIndices :
        /\ jobs[j].pc = "encode"
        /\ jobs[j].calls = 2
        /\ jobs[j].displayWidth = 2160 /\ jobs[j].displayHeight = 2160
        /\ jobs[j].downscaleHeight = 1080
        /\ jobs[j].downscaleWidth = NULL

\* The next bitrate as section 4.3 of the specification derives it:
\* max(150,000, floor(current x target / size x 0.92)), with
\* floor(current x 0.85) for the candidate when it is not below the current
C17_Expected(current, sizeBytes) ==
    LET candidate == MulDivFloor(current, 9016000, sizeBytes)
        reduced == IF candidate < current THEN candidate
                   ELSE MulDivFloor(current, 85, 100)
    IN  Max(150000, reduced)

\* C17: when an encodeVariant call made with more than 150,000 bps resolves
\* over budget and the job goes on to another call, the bitrate of that call
\* is strictly smaller and is the one the specification derives.
C17_Step(j) ==
    \A sizeBytes \in WideEngineSizes :
        ( /\ sizeBytes > 9800000
          /\ jobs[j].videoBitrateBps > 150000
          /\ EncodeResolves(j, sizeBytes)
          /\ jobs'[j].pc = "encode" )
        => /\ jobs'[j].videoBitrateBps < jobs[j].videoBitrateBps
           /\ jobs'[j].videoBitrateBps =
                 C17_Expected(jobs[j].videoBitrateBps, sizeBytes)
           /\ jobs'[j].prevBitrate = jobs[j].videoBitrateBps

\* C17, over every step and every invocation
C17_StrictDecrease == [][\A j \in JobIndices : C17_Step(j)]_vars

\* C17 witness: a call at the floor of 150,000 bps is pending after a call
\* above the floor whose corrected candidate fell below it.
C17_Witness ==
    \E j \in JobIndices :
        /\ jobs[j].pc = "encode"
        /\ jobs[j].videoBitrateBps = 150000
        /\ jobs[j].prevBitrate > 150000
        /\ jobs[j].prevBitrate < 200000

\* Invocation j is suspended and holds the current job id.
C18_Active(j) ==
    j \in JobIndices /\ jobs[j].pc # "returned" /\ jobs[j].id = jobIdRef

\* Invocation j was superseded, or has returned with 'done' or 'error' set,
\* the busy flag false and the pass indicator cleared.
C18_Settled(j) ==
    /\ j \in JobIndices
    /\ \/ jobs[j].id # jobIdRef
       \/ /\ jobs[j].pc = "returned"
          /\ output.status \in {"done", "error"}
          /\ ~isConverting
          /\ autoPass = NULL

\* C18: if every analyser and engine call is eventually answered, every
\* invocation that is in flight with the current job id is eventually
\* superseded or returns with a terminal status set, the busy flag false and
\* the pass indicator cleared; and 'encoding' never stays forever.
C18_EventuallySettled ==
    /\ \A j \in 1..MaxJobs : C18_Active(j) ~> C18_Settled(j)
    /\ (output.status = "encoding") ~> (output.status # "encoding")

\* C18 witness: a job that was never superseded has reported could-not-
\* converge after five calls, and the convert action is enabled again.
C18_Witness ==
    /\ mounted
    /\ \E j \in JobIndices : jobs[j].pc = "returned" /\ jobs[j].id = jobIdRef
    /\ output.status = "error"
    /\ output.error = NoConvergeMsg
    /\ ~isConverting
    /\ autoPass = NULL
    /\ CanConvert

\* C19: output.status is 'encoding' exactly when isConverting is true.
C19_BusyIffEncoding == (output.status = "encoding") <=> isConverting

\* C19 witness: a file selection has cleared the busy flag and the status
\* while the job it superseded is still in flight and no other job runs.
C19_Witness ==
    /\ ~isConverting
    /\ output.status = "idle"
    /\ SupersededInFlight
    /\ ActiveJobs = {}

\* C20: while the component is mounted, a url in the output state is the held
\* handle and is alive, and status 'done' comes with such a url.
C20_ShownUrlIsLive ==
    mounted =>
        /\ output.url # NULL =>
               output.url = outputUrlRef /\ output.url \in liveUrls
        /\ output.status = "done" => output.url # NULL

\* C20 witness: a validation error is shown over the artifact of an earlier
\* job, whose url is still in the output state, held and alive.
C20_Witness ==
    /\ mounted
    /\ output.status = "error"
    /\ output.url # NULL
    /\ output.url = outputUrlRef
    /\ output.url \in liveUrls

====
